---- MODULE Spec2Model ----
(***************************************************************************)
(* Ticket numbering and queue dispatch of the public-service queue API:    *)
(* the Ticket model (backend/tickets/models.py), the TicketViewSet         *)
(* (backend/tickets/views.py) and the CitizenViewSet                       *)
(* (backend/citizens/views.py), run by concurrent request handlers against *)
(* one shared database.                                                    *)
(***************************************************************************)
EXTENDS Integers, Sequences, FiniteSets, TLC

\* ------------------------------------------------------------------ bounds
\* Tickets ever inserted (the auto-increment primary key stops here).
MaxTickets == 3
\* Last instant of the clock.
MaxTime == 2
\* Clock instants in one calendar day.
TicksPerDay == 2
\* The largest number a renumbering may give (creations stay below it).
MaxNumber == MaxTickets + 1
\* Citizens ever inserted (the auto-increment primary key stops here).
MaxCitizens == 3

\* Concurrent request handlers (threads / worker processes).
Handlers == {1, 2}

\* ------------------------------------------------------------ data model
\* Ticket.STATUS_CHOICES
STATUS_CHOICES == {"pending", "serving", "completed", "cancelled"}

\* The concrete fields of Ticket besides the primary key.
TicketFields == {"citizen", "service", "number", "status", "created_at"}

\* The fields of Service: there is no "code".
ServiceFields == {"id", "name", "description", "is_active", "created_at"}

\* The rows of the services table: service 1 is active, service 2 is not.
Services == (1 :> [is_active |-> TRUE]) @@ (2 :> [is_active |-> FALSE])

\* The citizens in the table at the start (primary keys).
Citizens == {1}

\* What a request may carry as national_id (a CharField); "A" is the
\* national_id of the citizen in the table at the start.
NationalIds == {"A", "B"}

\* number = None (null=True); 0 is as falsy as None in "if not self.number".
NoNumber == 0
\* "no row": what .first() returns on an empty queryset, and a field not set.
NoTicket == 0
\* request.data.get('service') when the request carries no service.
NoService == 0

\* What a request may carry as its service: nothing, an existing service,
\* or an id that is in no row of the services table.
ServiceParams == {NoService, 1, 2, 3}

\* A PUT/PATCH payload field that is not sent.
Absent == "absent"

\* timezone.now().date()
Date(t) == t \div TicksPerDay

\* The lookup with its DoesNotExist never raised.
ServiceExists_Always(sid) == TRUE

\* Service.objects.get(id=service_id) finds a row (no Service.DoesNotExist).
ServiceExists(sid) == sid \in DOMAIN Services

VARIABLES
    tickets,    \* the tickets table, in insertion order
    nextId,     \* the next primary key of the tickets table
    now,        \* the clock
    req,        \* per handler: the request it is running, or its last response
    citizens,   \* the citizens table: primary key -> national_id
    nextCitizenId   \* the next primary key of the citizens table

vars == <<tickets, nextId, now, req, citizens, nextCitizenId>>

\* ---------------------------------------------------------------- queries
Rows == {tickets[i] : i \in 1..Len(tickets)}

Row(id) == CHOOSE t \in Rows : t.id = id

Exists(id) == \E t \in Rows : t.id = id

\* The filter with status='pending' left out.
Pending_AnyStatus(s) == {t \in Rows : t.service = s}

\* Ticket.objects.filter(service_id=s, status='pending')
Pending(s) == {t \in Rows : t.service = s /\ t.status = "pending"}

\* .order_by('created_at').first(): the rows the database may return first.
\* Only created_at orders the rows, so among equal created_at any may come.
FirstByCreatedAt(S) == {t \in S : \A u \in S : t.created_at <= u.created_at}

\* The filter with created_at__date=today left out.
SameDay_AnyDay(s, today) == {t \in Rows : t.service = s}

\* The filter with service=self.service left out.
SameDay_AnyService(s, today) == {t \in Rows : Date(t.created_at) = today}

\* Ticket.objects.filter(service=s, created_at__date=today)
SameDay(s, today) == {t \in Rows : t.service = s /\ Date(t.created_at) = today}

\* The count of the rows taken for the last number.
LastNumber_Count(S) == Cardinality(S)

\* .order_by('-number').first().number, or NoNumber when there is no row
LastNumber(S) == IF S = {} THEN NoNumber
                 ELSE CHOOSE n \in {t.number : t \in S} :
                        \A t \in S : t.number <= n

\* Ticket.save, the numbering: self.number = 1 if not last_ticket else
\* last_ticket.number + 1
NextNumber(s, today) ==
    LET last == LastNumber(SameDay(s, today))
    IN  IF last = NoNumber THEN 1 ELSE last + 1

\* Ticket.save: "if not self.number" decides whether a number is assigned.
NeedsNumber(number) == number = NoNumber

\* --------------------------------------------------------- handler state
Idle == [pc |-> "idle", op |-> "none", service |-> NoService,
         status |-> "", number |-> NoNumber, today |-> 0,
         ticket |-> NoTicket, code |-> 0, citizen |-> 0, national_id |-> ""]

\* The response of a request: the HTTP status and the ticket in its body.
Done(op, s, code, id) ==
    [Idle EXCEPT !.pc = "done", !.op = op, !.service = s, !.code = code,
                 !.ticket = id]

Free(h) == req[h].pc \in {"idle", "done"}

InFlightSaves == Cardinality({h \in Handlers : req[h].pc = "save_write"})

TypeOK ==
    /\ nextId \in 1..(MaxTickets + 1)
    /\ now \in 0..MaxTime
    /\ \A i \in 1..Len(tickets) :
          /\ tickets[i].id \in 1..MaxTickets
          /\ tickets[i].service \in DOMAIN Services
          /\ tickets[i].citizen \in 1..MaxCitizens
          /\ tickets[i].status \in STATUS_CHOICES
          /\ tickets[i].number \in Nat
          /\ tickets[i].created_at \in 0..MaxTime
    /\ nextCitizenId \in 1..(MaxCitizens + 1)
    /\ DOMAIN citizens \subseteq 1..MaxCitizens
    /\ \A c \in DOMAIN citizens : citizens[c] \in NationalIds

Init ==
    /\ tickets = <<>>
    /\ nextId = 1
    /\ now = 0
    /\ req = [h \in Handlers |-> Idle]
    /\ citizens = [c \in Citizens |-> "A"]
    /\ nextCitizenId = 2

\* ------------------------------------------------------------ the clock
Tick ==
    /\ now < MaxTime
    /\ now' = now + 1
    /\ UNCHANGED <<tickets, nextId, req, citizens, nextCitizenId>>

\* ---------------------------------------------- Ticket.save, a new ticket
\* Ticket(service=s, citizen=c, status=st).save(), up to the read of the
\* last ticket of the service today: the number is computed from that read.
SaveRead(h, s, st) ==
    /\ Free(h)
    /\ nextId + InFlightSaves <= MaxTickets
    /\ \E c \in DOMAIN citizens :
        LET today == Date(now)
        IN  req' = [req EXCEPT ![h] =
                [Idle EXCEPT !.pc = "save_write", !.op = "save",
                             !.service = s, !.status = st, !.today = today,
                             !.number = NextNumber(s, today),
                             !.citizen = c]]
    /\ UNCHANGED <<tickets, nextId, now, citizens, nextCitizenId>>

\* super().save(): the INSERT; created_at is auto_now_add, set at the insert.
\* The citizen foreign key must point at a row: an INSERT for a citizen
\* deleted meanwhile raises IntegrityError and stores nothing.
SaveWrite(h) ==
    /\ req[h].pc = "save_write"
    /\ IF req[h].citizen \in DOMAIN citizens
       THEN /\ tickets' = Append(tickets,
                    [id |-> nextId, service |-> req[h].service,
                     citizen |-> req[h].citizen,
                     number |-> req[h].number, status |-> req[h].status,
                     created_at |-> now])
            /\ nextId' = nextId + 1
       ELSE UNCHANGED <<tickets, nextId>>
    /\ req' = [req EXCEPT ![h] = Idle]
    /\ UNCHANGED <<now, citizens, nextCitizenId>>

\* ------------------------------------- ModelViewSet.update / partial_update
\* PUT/PATCH /tickets/<id>/: get_object, the payload's fields set on the
\* instance, then Ticket.save() and an UPDATE of the row. status is checked
\* against STATUS_CHOICES only; number is nullable, and a number sent as null
\* makes "if not self.number" assign a new one.
UpdatedRow(t, st, num) ==
    [t EXCEPT !.status = IF st = Absent THEN @ ELSE st,
              !.number = IF num = "null" /\ NeedsNumber(NoNumber)
                         THEN NextNumber(t.service, Date(now))
                         ELSE @]

UpdateTicket(h, id, st, num) ==
    /\ Free(h)
    /\ Exists(id) /\ num = "null" =>
            NextNumber(Row(id).service, Date(now)) <= MaxNumber
    /\ IF Exists(id)
       THEN /\ tickets' = [i \in 1..Len(tickets) |->
                    IF tickets[i].id = id
                    THEN UpdatedRow(tickets[i], st, num) ELSE tickets[i]]
            /\ req' = [req EXCEPT ![h] =
                    Done("update", NoService, 200, NoTicket)]
       ELSE /\ tickets' = tickets
            /\ req' = [req EXCEPT ![h] = Done("update", NoService, 404, NoTicket)]
    /\ UNCHANGED <<nextId, now, citizens, nextCitizenId>>

\* ------------------------------------------------- TicketViewSet.destroy
Without(id) == SelectSeq(tickets, LAMBDA t : t.id # id)

DestroyTicket(h, id) ==
    /\ Free(h)
    /\ IF Exists(id)
       THEN /\ tickets' = Without(id)
            \* the response carries ticket_data: the number and the service
            /\ req' = [req EXCEPT ![h] =
                    [Done("destroy", Row(id).service, 200, NoTicket)
                        EXCEPT !.number = Row(id).number]]
       ELSE \* get_object raises Http404 inside the try: except Exception
            /\ tickets' = tickets
            /\ req' = [req EXCEPT ![h] = Done("destroy", NoService, 500, NoTicket)]
    /\ UNCHANGED <<nextId, now, citizens, nextCitizenId>>

\* ---------------------------------------------- TicketViewSet.next_ticket
NextTicket(h, sid) ==
    /\ Free(h)
    /\ IF sid = NoService
       THEN req' = [req EXCEPT ![h] = Done("next", sid, 400, NoTicket)]
       ELSE IF ~ServiceExists(sid)
       THEN req' = [req EXCEPT ![h] = Done("next", sid, 404, NoTicket)]
       ELSE IF Pending(sid) = {}
       THEN req' = [req EXCEPT ![h] = Done("next", sid, 204, NoTicket)]
       ELSE \E t \in FirstByCreatedAt(Pending(sid)) :
                req' = [req EXCEPT ![h] = Done("next", sid, 200, t.id)]
    /\ UNCHANGED <<tickets, nextId, now, citizens, nextCitizenId>>

\* ----------------------------------------------- TicketViewSet.serve_next
\* Up to the select of the next pending ticket. The transaction takes no
\* lock on the row it selects (no select_for_update).
ServeSelect(h, sid) ==
    /\ Free(h)
    /\ IF sid = NoService
       THEN req' = [req EXCEPT ![h] = Done("serve", sid, 400, NoTicket)]
       ELSE IF ~ServiceExists(sid)
       THEN req' = [req EXCEPT ![h] = Done("serve", sid, 404, NoTicket)]
       ELSE IF Pending(sid) = {}
       THEN req' = [req EXCEPT ![h] = Done("serve", sid, 204, NoTicket)]
       ELSE \E t \in FirstByCreatedAt(Pending(sid)) :
                req' = [req EXCEPT ![h] =
                    [Idle EXCEPT !.pc = "serve_write", !.op = "serve",
                                 !.service = sid, !.ticket = t.id]]
    /\ UNCHANGED <<tickets, nextId, now, citizens, nextCitizenId>>

\* The fields serve_next passes to save(update_fields=...).
ServeUpdateFields == {"status", "updated_at"}

\* Model.save(update_fields=...): a name that is no concrete field of the
\* model raises ValueError before any SQL is run.
SaveUpdateFields(update_fields) ==
    IF update_fields \subseteq TicketFields THEN "ok" ELSE "ValueError"

\* ticket.status = 'serving'
ServeStatus == "serving"

\* The transaction with no rollback: what was written stays.
Atomic_NoRollback(outcome, written, before) == written

\* with transaction.atomic(): the body's writes are committed when it ends
\* normally and rolled back when an exception leaves it.
Atomic(outcome, written, before) ==
    IF outcome = "ok" THEN written ELSE before

\* ticket.status = 'serving'; ticket.full_clean();
\* ticket.save(update_fields=[...]); the response.
\* ValueError is no DjangoValidationError and no DatabaseError: it reaches
\* "except Exception" (500) and the transaction is rolled back. An UPDATE
\* that finds no row raises DatabaseError (503).
ServeWrite(h) ==
    /\ req[h].pc = "serve_write"
    /\ LET id == req[h].ticket
           s  == req[h].service
           outcome == IF SaveUpdateFields(ServeUpdateFields) # "ok"
                      THEN "ValueError"
                      ELSE IF ~Exists(id) THEN "DatabaseError" ELSE "ok"
           written == [i \in 1..Len(tickets) |->
                        IF tickets[i].id = id
                        THEN [tickets[i] EXCEPT !.status = ServeStatus]
                        ELSE tickets[i]]
       IN  /\ tickets' = Atomic(outcome, written, tickets)
           /\ req' = [req EXCEPT ![h] =
                    IF outcome = "ValueError" THEN Done("serve", s, 500, NoTicket)
                    ELSE IF outcome = "DatabaseError"
                    THEN Done("serve", s, 503, NoTicket)
                    ELSE Done("serve", s, 200, id)]
    /\ UNCHANGED <<nextId, now, citizens, nextCitizenId>>

\* --------------------------------------------------- TicketViewSet.create
\* Ticket.number is a PositiveIntegerField: last_ticket.number is an int.
NumberType == "int"

\* .order_by('-created_at').first()
LastByCreatedAt(S) == {t \in S : \A u \in S : u.created_at <= t.created_at}

\* "Generate ticket number": what the block ends with, given the row that
\* .first() returned (NoTicket: none). An int has no split and Service has no
\* code: both raise AttributeError, which "except (ValueError, IndexError)"
\* does not catch.
ViewNewNumber(last) ==
    IF last # NoTicket /\ ~NeedsNumber(Row(last).number)
    THEN IF NumberType = "str" /\ "code" \in ServiceFields
         THEN "ok" ELSE "AttributeError"
    ELSE IF "code" \in ServiceFields THEN "ok" ELSE "AttributeError"

\* The status of the response of create for an existing service: the
\* AttributeError reaches "except Exception" (500). A generated number would
\* be a string "<code>-0001", which the integer field rejects (400).
ViewCreateCode(last) ==
    IF ViewNewNumber(last) = "AttributeError" THEN 500 ELSE 400

\* POST /tickets/: is_active is never read.
ViewCreate(h, sid) ==
    /\ Free(h)
    /\ IF sid = NoService
       THEN req' = [req EXCEPT ![h] = Done("create", sid, 400, NoTicket)]
       ELSE IF ~ServiceExists(sid)
       THEN req' = [req EXCEPT ![h] = Done("create", sid, 404, NoTicket)]
       ELSE LET S == {t \in Rows : t.service = sid}
            IN  IF S = {}
                THEN req' = [req EXCEPT ![h] =
                        Done("create", sid, ViewCreateCode(NoTicket), NoTicket)]
                ELSE \E t \in LastByCreatedAt(S) :
                        req' = [req EXCEPT ![h] =
                            Done("create", sid, ViewCreateCode(t.id), NoTicket)]
    /\ UNCHANGED <<tickets, nextId, now, citizens, nextCitizenId>>

\* --------------------------------------------------- CitizenViewSet.create
\* The response of a citizen request: the HTTP status, with the citizen and
\* the national_id the request was about.
CitizenDone(op, code, c, nid) ==
    [Idle EXCEPT !.pc = "done", !.op = op, !.code = code, !.citizen = c,
                 !.national_id = nid]

\* The duplicate check with no row ever found.
NationalIdTaken_Never(nid) == FALSE

\* Citizen.objects.filter(national_id=nid).exists()
NationalIdTaken(nid) == \E c \in DOMAIN citizens : citizens[c] = nid

\* national_id is unique=True: an INSERT or UPDATE that would give citizen c
\* a national_id another row holds raises IntegrityError.
UniqueViolation(c, nid) ==
    \E d \in DOMAIN citizens : d # c /\ citizens[d] = nid

InFlightInserts ==
    Cardinality({h \in Handlers : req[h].pc = "citizen_insert"})

\* POST /citizens/ with a non-blank national_id, up to the duplicate check.
CitizenCreateCheck(h, nid) ==
    /\ Free(h)
    /\ IF NationalIdTaken(nid)
       THEN req' = [req EXCEPT ![h] =
                CitizenDone("citizen_create", 409, 0, nid)]
       ELSE /\ nextCitizenId + InFlightInserts <= MaxCitizens
            /\ req' = [req EXCEPT ![h] =
                    [Idle EXCEPT !.pc = "citizen_insert",
                                 !.op = "citizen_create",
                                 !.national_id = nid]]
    /\ UNCHANGED <<tickets, nextId, now, citizens, nextCitizenId>>

\* super().create: the INSERT. An IntegrityError is a DatabaseError: 503.
CitizenInsert(h) ==
    /\ req[h].pc = "citizen_insert"
    /\ LET nid == req[h].national_id
       IN  IF UniqueViolation(nextCitizenId, nid)
           THEN /\ UNCHANGED <<citizens, nextCitizenId>>
                /\ req' = [req EXCEPT ![h] =
                        CitizenDone("citizen_create", 503, 0, nid)]
           ELSE /\ citizens' = (nextCitizenId :> nid) @@ citizens
                /\ nextCitizenId' = nextCitizenId + 1
                /\ req' = [req EXCEPT ![h] =
                        CitizenDone("citizen_create", 201, nextCitizenId, nid)]
    /\ UNCHANGED <<tickets, nextId, now>>

\* --------------------------------------------------- CitizenViewSet.update
\* PUT/PATCH /citizens/<id>/ up to the duplicate check. get_object raises
\* Http404 inside the try: "except Exception" answers 500.
CitizenUpdateCheck(h, id, nid) ==
    /\ Free(h)
    /\ IF id \notin DOMAIN citizens
       THEN req' = [req EXCEPT ![h] = CitizenDone("citizen_update", 500, id, nid)]
       ELSE IF nid # Absent /\ nid # citizens[id] /\ NationalIdTaken(nid)
       THEN req' = [req EXCEPT ![h] = CitizenDone("citizen_update", 409, id, nid)]
       ELSE req' = [req EXCEPT ![h] =
                [Idle EXCEPT !.pc = "citizen_update", !.op = "citizen_update",
                             !.citizen = id, !.national_id = nid]]
    /\ UNCHANGED <<tickets, nextId, now, citizens, nextCitizenId>>

\* super().update: get_object again, then the UPDATE. Http404 and
\* IntegrityError both reach "except Exception": 500.
CitizenUpdateWrite(h) ==
    /\ req[h].pc = "citizen_update"
    /\ LET id  == req[h].citizen
           nid == req[h].national_id
       IN  IF id \notin DOMAIN citizens
              \/ (nid # Absent /\ UniqueViolation(id, nid))
           THEN /\ citizens' = citizens
                /\ req' = [req EXCEPT ![h] =
                        CitizenDone("citizen_update", 500, id, nid)]
           ELSE /\ citizens' = IF nid = Absent THEN citizens
                                ELSE [citizens EXCEPT ![id] = nid]
                /\ req' = [req EXCEPT ![h] =
                        CitizenDone("citizen_update", 200, id, nid)]
    /\ UNCHANGED <<tickets, nextId, now, nextCitizenId>>

\* -------------------------------------------------- CitizenViewSet.destroy
\* Ticket.citizen: related_name="tickets" names the reverse accessor.
TicketRelatedName == "tickets"

\* hasattr(citizen, name) for the reverse accessor of Ticket.citizen.
CitizenHasAttr(name) == name = TicketRelatedName

\* citizen.<reverse accessor>: the tickets of the citizen.
TicketsOf(c) == {t \in Rows : t.citizen = c}

\* Ticket.citizen is on_delete=CASCADE: the citizen's tickets go with it.
Cascade(c) == SelectSeq(tickets, LAMBDA t : t.citizen # c)

\* DELETE /citizens/<id>/: the dependent-tickets check reads
\* citizen.ticket_set, and runs only if that attribute exists.
CitizenDestroy(h, id) ==
    /\ Free(h)
    /\ IF id \notin DOMAIN citizens
       THEN /\ UNCHANGED <<tickets, citizens>>
            /\ req' = [req EXCEPT ![h] =
                    CitizenDone("citizen_destroy", 500, id, "")]
       ELSE IF CitizenHasAttr("ticket_set") /\ TicketsOf(id) # {}
       THEN /\ UNCHANGED <<tickets, citizens>>
            /\ req' = [req EXCEPT ![h] =
                    CitizenDone("citizen_destroy", 400, id, "")]
       ELSE /\ citizens' = [c \in DOMAIN citizens \ {id} |-> citizens[c]]
            /\ tickets' = Cascade(id)
            /\ req' = [req EXCEPT ![h] =
                    CitizenDone("citizen_destroy", 200, id, "")]
    /\ UNCHANGED <<nextId, now, nextCitizenId>>

\* ------------------------------------------------------------ the system
\* What a caller of Ticket(...).save() may give as the new ticket's status.
CreateStatuses == {"pending", "serving"}

\* The whole system: every handler may run every operation at any time.
Next ==
    \/ Tick
    \/ \E h \in Handlers :
        \/ \E s \in DOMAIN Services, st \in CreateStatuses : SaveRead(h, s, st)
        \/ SaveWrite(h)
        \/ \E id \in 1..MaxTickets, st \in STATUS_CHOICES \cup {Absent},
              num \in {Absent, "null"} : UpdateTicket(h, id, st, num)
        \/ \E id \in 1..MaxTickets : DestroyTicket(h, id)
        \/ \E sid \in ServiceParams : NextTicket(h, sid)
        \/ \E sid \in ServiceParams : ServeSelect(h, sid)
        \/ ServeWrite(h)
        \/ \E sid \in ServiceParams : ViewCreate(h, sid)
        \/ \E nid \in NationalIds : CitizenCreateCheck(h, nid)
        \/ CitizenInsert(h)
        \/ \E id \in 1..MaxCitizens, nid \in NationalIds \cup {Absent} :
                CitizenUpdateCheck(h, id, nid)
        \/ CitizenUpdateWrite(h)
        \/ \E id \in 1..MaxCitizens : CitizenDestroy(h, id)

Spec == Init /\ [][Next]_vars

\* The queue under concurrency: tickets are created pending and dispatched
\* by handlers that interleave freely.
QueueNext ==
    \/ Tick
    \/ \E h \in Handlers :
        \/ \E s \in DOMAIN Services : SaveRead(h, s, "pending")
        \/ SaveWrite(h)
        \/ \E sid \in ServiceParams : NextTicket(h, sid)
        \/ \E sid \in ServiceParams : ServeSelect(h, sid)
        \/ ServeWrite(h)

QueueSpec == Init /\ [][QueueNext]_vars

\* One request at a time: a single handler, and the clock moves between
\* requests only.
Quiet == \A h \in Handlers : Free(h)

\* The queue, one request at a time.
SeqNext ==
    \/ Quiet /\ Tick
    \/ \E s \in DOMAIN Services, st \in CreateStatuses : SaveRead(1, s, st)
    \/ SaveWrite(1)
    \/ \E sid \in ServiceParams : NextTicket(1, sid)
    \/ \E sid \in ServiceParams : ServeSelect(1, sid)
    \/ ServeWrite(1)

SeqSpec == Init /\ [][SeqNext]_vars

\* The ticket records, one request at a time and within one instant of the
\* clock: creation, update, deletion and the create endpoint.
CrudNext ==
    \/ \E s \in DOMAIN Services : SaveRead(1, s, "pending")
    \/ SaveWrite(1)
    \/ \E id \in 1..MaxTickets, st \in STATUS_CHOICES \cup {Absent},
          num \in {Absent, "null"} : UpdateTicket(1, id, st, num)
    \/ \E id \in 1..MaxTickets : DestroyTicket(1, id)
    \/ \E sid \in ServiceParams : ViewCreate(1, sid)

CrudSpec == Init /\ [][CrudNext]_vars

\* The citizens table under concurrency: handlers that interleave freely.
CitizenNext ==
    \E h \in Handlers :
        \/ \E nid \in NationalIds : CitizenCreateCheck(h, nid)
        \/ CitizenInsert(h)
        \/ \E id \in 1..MaxCitizens, nid \in NationalIds \cup {Absent} :
                CitizenUpdateCheck(h, id, nid)
        \/ CitizenUpdateWrite(h)
        \/ \E id \in 1..MaxCitizens : CitizenDestroy(h, id)

CitizenSpec == Init /\ [][CitizenNext]_vars

\* Citizens and their tickets, one request at a time and within one instant
\* of the clock.
OwnerNext ==
    \/ SaveRead(1, 1, "pending")
    \/ SaveWrite(1)
    \/ \E id \in 1..MaxTickets : DestroyTicket(1, id)
    \/ \E nid \in NationalIds : CitizenCreateCheck(1, nid)
    \/ CitizenInsert(1)
    \/ \E id \in 1..MaxCitizens : CitizenDestroy(1, id)

OwnerSpec == Init /\ [][OwnerNext]_vars

\* Dispatch against updates: a handler may change a ticket's status between
\* another handler's select and write, within one instant of the clock.
RaceNext ==
    \E h \in Handlers :
        \/ \E s \in DOMAIN Services : SaveRead(h, s, "pending")
        \/ SaveWrite(h)
        \/ \E id \in 1..MaxTickets, st \in STATUS_CHOICES :
                UpdateTicket(h, id, st, Absent)
        \/ \E s \in DOMAIN Services : ServeSelect(h, s)
        \/ ServeWrite(h)

RaceSpec == Init /\ [][RaceNext]_vars

\* Creation and deletion, one request at a time: handler 1 creates, handler
\* 2 deletes, and no request starts while another is running.
ReuseNext ==
    \/ Quiet /\ Tick
    \/ \E s \in DOMAIN Services : Quiet /\ SaveRead(1, s, "pending")
    \/ SaveWrite(1)
    \/ \E id \in 1..MaxTickets : Quiet /\ DestroyTicket(2, id)

ReuseSpec == Init /\ [][ReuseNext]_vars

\* The two endpoints that write inside a transaction, with the creations
\* that fill the store, one request at a time.
ErrNext ==
    \/ Quiet /\ Tick
    \/ \E s \in DOMAIN Services : SaveRead(1, s, "pending")
    \/ SaveWrite(1)
    \/ \E sid \in ServiceParams : ViewCreate(1, sid)
    \/ \E sid \in ServiceParams : ServeSelect(1, sid)
    \/ ServeWrite(1)

ErrSpec == Init /\ [][ErrNext]_vars

\* ================================================================ claims
\* What the specification calls things, stated apart from the queries above.
SameScope(t, u) ==
    t.service = u.service /\ Date(t.created_at) = Date(u.created_at)

HasPending(s) == \E t \in Rows : t.service = s /\ t.status = "pending"

StatusOf(rows, id) == (CHOOSE t \in rows : t.id = id).status

\* A handler's request ends in this step with a response of operation op.
Responds(h, op) ==
    /\ req'[h] # req[h]
    /\ req'[h].pc = "done"
    /\ req'[h].op = op

\* C1: concurrent advance_next (serve_next) calls claim each pending ticket
\* at most once and leave none unclaimed: a call that found a pending ticket
\* ends either with 200 and a ticket it alone moved from pending to serving,
\* or, when the others have claimed every pending ticket meanwhile, with the
\* empty result; so N calls against K pending tickets end with min(N,K)
\* tickets serving and no ticket returned twice.
C1_ClaimedExactlyOnce ==
    [][\A h \in Handlers :
        (req[h].pc = "serve_write" /\ Responds(h, "serve")) =>
            \/ /\ req'[h].code = 200
               /\ \E t \in Rows :
                    /\ t.id = req'[h].ticket
                    /\ t.status = "pending"
                    /\ StatusOf({tickets'[i] : i \in 1..Len(tickets')}, t.id)
                         = "serving"
               /\ \A g \in Handlers \ {h} :
                    ~(req[g].pc = "done" /\ req[g].op = "serve"
                        /\ req[g].code = 200
                        /\ req[g].ticket = req'[h].ticket)
            \/ /\ req'[h].code = 204
               /\ ~HasPending(req[h].service)
               /\ tickets' = tickets]_vars

\* C2: tickets created in one numbering scope (same service, same day) carry
\* pairwise distinct numbers, also when their creations interleave.
C2_DistinctNumbersInScope ==
    \A i, j \in 1..Len(tickets) :
        (i # j /\ SameScope(tickets[i], tickets[j]))
            => tickets[i].number # tickets[j].number

C4_FifoServe ==
    [][\A h \in Handlers :
        (Responds(h, "serve") /\ req'[h].service \in DOMAIN Services) =>
            LET s == req'[h].service
                P == {i \in 1..Len(tickets) :
                        tickets[i].service = s /\ tickets[i].status = "pending"}
            IN  IF P = {}
                THEN req'[h].code = 204 /\ tickets' = tickets
                ELSE LET first == CHOOSE i \in P : \A k \in P : i <= k
                     IN  /\ req'[h].code = 200
                         /\ req'[h].ticket = tickets[first].id
                         /\ tickets' = [tickets EXCEPT
                                ![first].status = "serving"]]_vars

\* C5: every change of a ticket's status is pending -> serving,
\* serving -> completed or pending -> cancelled.
AllowedTransitions ==
    {<<"pending", "serving">>, <<"serving", "completed">>,
     <<"pending", "cancelled">>}

C5_StatusLifecycle ==
    [][\A i \in 1..Len(tickets), j \in 1..Len(tickets') :
        (tickets[i].id = tickets'[j].id
            /\ tickets[i].status # tickets'[j].status)
            => <<tickets[i].status, tickets'[j].status>>
                    \in AllowedTransitions]_vars

\* C6: a ticket that is completed or cancelled keeps that status: no
\* request changes it (an attempt is refused as an invalid transition).
C6_TerminalIsFinal ==
    [][\A t \in Rows :
        t.status \in {"completed", "cancelled"} =>
            \A j \in 1..Len(tickets') :
                tickets'[j].id = t.id => tickets'[j].status = t.status]_vars

\* C7: peek_next (next_ticket) changes no ticket, and a peek_next that
\* follows a peek_next for the same service, with no request in between,
\* returns the same ticket.
C7_PeekStable ==
    [][\A h \in Handlers :
        Responds(h, "next") =>
            /\ tickets' = tickets
            /\ (req[h].pc = "done" /\ req[h].op = "next"
                    /\ req[h].service = req'[h].service)
                => (req'[h].code = req[h].code
                        /\ req'[h].ticket = req[h].ticket)]_vars

\* C8: advance_next on an existing service that has no pending ticket
\* returns the empty result (204), not an error, and changes no ticket.
C8_EmptyServe ==
    [][\A h \in Handlers :
        (Free(h) /\ req'[h] # req[h] /\ req'[h].op = "serve"
            /\ req'[h].service \in DOMAIN Services
            /\ ~HasPending(req'[h].service))
            => (req'[h].pc = "done" /\ req'[h].code = 204
                    /\ req'[h].ticket = NoTicket
                    /\ tickets' = tickets)]_vars

\* advance_next answered 204 for a service whose only tickets are not
\* pending, while another service has a pending ticket.
C8_Witness ==
    \E h \in Handlers :
        /\ req[h].pc = "done" /\ req[h].op = "serve" /\ req[h].code = 204
        /\ \E t \in Rows : t.service = req[h].service
        /\ ~HasPending(req[h].service)
        /\ \E t \in Rows : t.service # req[h].service /\ t.status = "pending"

\* C9: a ticket keeps the number it was created with through every later
\* save, status change and update.
C9_NumberImmutable ==
    [][\A i \in 1..Len(tickets), j \in 1..Len(tickets') :
        tickets[i].id = tickets'[j].id
            => tickets'[j].number = tickets[i].number]_vars

\* C10: a ticket creation for a service that does not exist, or that is not
\* active, fails with NotFound (404) and persists no ticket.
C10_CreateNeedsActiveService ==
    [][\A h \in Handlers :
        (Responds(h, "create") /\ req'[h].service # NoService
            /\ (req'[h].service \notin DOMAIN Services
                \/ ~Services[req'[h].service].is_active))
            => (req'[h].code = 404 /\ tickets' = tickets)]_vars

\* C11: peek_next (next_ticket) and advance_next (serve_next) called with a
\* service reference that is in no row of the services table answer NotFound
\* (404) with no ticket, and leave every ticket unchanged.
C11_UnknownServiceNotFound ==
    [][\A h \in Handlers :
        (Free(h) /\ req'[h] # req[h] /\ req'[h].op \in {"next", "serve"}
            /\ req'[h].service # NoService
            /\ req'[h].service \notin DOMAIN Services)
            => (req'[h].pc = "done" /\ req'[h].code = 404
                    /\ req'[h].ticket = NoTicket
                    /\ tickets' = tickets)]_vars

\* advance_next answered 404 for an unknown service while pending tickets of
\* the existing services are in the store.
C11_Witness ==
    \E h \in Handlers :
        /\ req[h].pc = "done" /\ req[h].op = "serve" /\ req[h].code = 404
        /\ req[h].service \notin DOMAIN Services
        /\ \E t \in Rows : t.status = "pending"

\* The store holds a ticket with number n in the numbering scope (s, day).
NumberTaken(s, day, n) ==
    \E t \in Rows : t.service = s /\ Date(t.created_at) = day /\ t.number = n

\* C12: a ticket write that meets a numbering conflict (the number it
\* carries is already held in its scope) is rejected by the store and stores
\* nothing; the creation then runs the read-increment-write sequence again,
\* and only when its bounded retries are used up does it answer Conflict
\* (409): the conflict is never the outcome of the first rejection.
C12_RetryOnConflict ==
    [][\A h \in Handlers :
        (req[h].pc = "save_write" /\ req'[h] # req[h]
            /\ NumberTaken(req[h].service, Date(now), req[h].number))
            => /\ tickets' = tickets
               /\ \/ /\ req'[h].pc = "save_write"
                     /\ ~NumberTaken(req'[h].service, Date(now),
                                     req'[h].number)
                  \/ /\ req'[h].pc = "done"
                     /\ req'[h].code = 409]_vars

\* The primary keys of the tickets in a tickets table.
Ids(rows) == {rows[i].id : i \in 1..Len(rows)}

\* C13: deleting a citizen who still has tickets is rejected with an error
\* and removes neither the citizen nor any ticket; and a ticket leaves the
\* store only in a successful explicit deletion of that ticket.
C13_CitizenWithTicketsKept ==
    [][/\ \A h \in Handlers :
            (Responds(h, "citizen_destroy")
                /\ \E t \in Rows : t.citizen = req'[h].citizen)
                => (req'[h].code >= 400
                        /\ citizens' = citizens /\ tickets' = tickets)
       /\ \A id \in Ids(tickets) \ Ids(tickets') :
            \E h \in Handlers :
                /\ Responds(h, "destroy")
                /\ req'[h].code = 200
                /\ Ids(tickets') = Ids(tickets) \ {id}]_vars

\* Another citizen than c holds national_id nid (c = 0: any citizen).
HeldByAnother(c, nid) ==
    \E d \in DOMAIN citizens : d # c /\ citizens[d] = nid

\* C14: no two citizens ever share a national_id, also after concurrent
\* requests; and a create, or an update of an existing citizen, that carries
\* a national_id held by another citizen when the request is handled is
\* answered 409 and changes no record.
C14_NationalIdUnique ==
    /\ [](\A c, d \in DOMAIN citizens :
            c # d => citizens[c] # citizens[d])
    /\ [][\A h \in Handlers :
            (Free(h) /\ req'[h] # req[h]
                /\ \/ /\ req'[h].op = "citizen_create"
                      /\ HeldByAnother(0, req'[h].national_id)
                   \/ /\ req'[h].op = "citizen_update"
                      /\ req'[h].citizen \in DOMAIN citizens
                      /\ HeldByAnother(req'[h].citizen, req'[h].national_id))
                => (req'[h].pc = "done" /\ req'[h].code = 409
                        /\ citizens' = citizens
                        /\ tickets' = tickets)]_vars

\* A create was answered 409 for a national_id that a second citizen holds,
\* after two creates with one national_id raced and the store's unique
\* constraint turned the later insert down.
C14_Witness ==
    \E h, g \in Handlers :
        /\ req[h].pc = "done" /\ req[h].op = "citizen_create"
        /\ req[h].code = 409
        /\ \E c \in DOMAIN citizens : c > 1 /\ citizens[c] = req[h].national_id
        /\ req[g].pc = "done" /\ req[g].op = "citizen_create"
        /\ req[g].code = 503

\* C15: advance_next (serve_next) writes serving only to a ticket that is
\* pending at the moment of the write: when another handler has moved the
\* selected ticket to serving, completed or cancelled since the select, the
\* call answers InvalidTransition (400, "Invalid status transition") and the
\* ticket keeps the status the other handler gave it.
C15_RecheckBeforeWrite ==
    [][\A h \in Handlers :
        (req[h].pc = "serve_write" /\ req'[h] # req[h]) =>
            \A t \in Rows :
                t.id = req[h].ticket =>
                    IF t.status = "pending"
                    THEN \A j \in 1..Len(tickets') :
                            (tickets'[j].id = t.id)
                                => tickets'[j].status \in {"pending", "serving"}
                    ELSE /\ req'[h].pc = "done"
                         /\ req'[h].code = 400
                         /\ tickets' = tickets]_vars

\* The pending ticket of service s that the selection rule names: earliest
\* created_at, then lowest number, then earliest inserted (lowest key).
Before(t, u) ==
    \/ t.created_at < u.created_at
    \/ t.created_at = u.created_at /\ t.number < u.number
    \/ t.created_at = u.created_at /\ t.number = u.number /\ t.id <= u.id

RuleSelects(s, t) ==
    /\ t.service = s /\ t.status = "pending"
    /\ \A u \in Rows : (u.service = s /\ u.status = "pending") => Before(t, u)

\* C16: the ticket that peek_next (next_ticket) returns and that
\* advance_next (serve_next) selects is the pending ticket of the service
\* with the earliest created_at, among equal created_at the lowest number,
\* then the earliest inserted: it is determined by the stored tickets.
C16_DeterministicSelection ==
    [][\A h \in Handlers :
        (Free(h) /\ req'[h] # req[h] /\ req'[h].op \in {"next", "serve"}
            /\ req'[h].ticket # NoTicket)
            => \E t \in Rows :
                    t.id = req'[h].ticket /\ RuleSelects(req'[h].service, t)]_vars

\* The tickets of service s alone, and what the numbering and the selection
\* make of them.
TicketsOfService(s) == {t \in Rows : t.service = s}

NumberFrom(S, today) ==
    LET N == {t.number : t \in {u \in S : Date(u.created_at) = today}}
    IN  IF N = {} THEN 1 ELSE 1 + CHOOSE n \in N : \A m \in N : m <= n

MaySelectFrom(S) ==
    {t \in S : t.status = "pending"
        /\ \A u \in S : u.status = "pending" => t.created_at <= u.created_at}

\* C17: operations on one service are independent of every other service. A
\* step of a create, peek_next or advance_next for service A leaves every
\* ticket of another service as it was; the number a create computes and the
\* ticket a peek_next or advance_next picks are determined by the tickets of
\* A alone, and the new ticket is a ticket of A.
C17_ServicesIndependent ==
    [][\A h \in Handlers :
        (req'[h] # req[h] /\ (req'[h].op \in {"save", "next", "serve"}
                                \/ req[h].op = "save")) =>
            LET A == IF req[h].pc \in {"save_write", "serve_write"}
                     THEN req[h].service ELSE req'[h].service
                OfA == TicketsOfService(A)
            IN  /\ \A i \in 1..Len(tickets) :
                    tickets[i].service # A =>
                        \E j \in 1..Len(tickets') : tickets'[j] = tickets[i]
                /\ \A j \in 1..Len(tickets') :
                    tickets'[j].service # A => tickets'[j] \in Rows
                /\ (req'[h].pc = "save_write")
                    => req'[h].number = NumberFrom(OfA, Date(now))
                /\ (Free(h) /\ req'[h].ticket # NoTicket)
                    => req'[h].ticket \in {t.id : t \in MaySelectFrom(OfA)}]_vars

\* A ticket of service 2 was numbered 1 and a peek_next of service 2 returned
\* it, while service 1 held an earlier pending ticket and a higher number on
\* the same day.
C17_Witness ==
    \E h \in Handlers, t, u, v \in Rows :
        /\ req[h].pc = "done" /\ req[h].op = "next" /\ req[h].code = 200
        /\ req[h].service = 2 /\ req[h].ticket = v.id
        /\ v.service = 2 /\ v.number = 1
        /\ t.service = 1 /\ t.status = "pending"
        /\ t.created_at < v.created_at
        /\ u.service = 1 /\ u.number = 2
        /\ Date(u.created_at) = Date(v.created_at)

\* C18: every successful ticket creation adds exactly one ticket to the
\* store, the new ticket has status pending whatever status the caller
\* supplied, and no ticket that was there is changed.
C18_CreatedPending ==
    [][\A h \in Handlers :
        (req[h].pc = "save_write" /\ req'[h] # req[h] /\ tickets' # tickets)
            => /\ Len(tickets') = Len(tickets) + 1
               /\ \A i \in 1..Len(tickets) : tickets'[i] = tickets[i]
               /\ tickets'[Len(tickets')].status = "pending"]_vars

\* C19: with the per-service-per-day numbering of Ticket.save, the first
\* ticket created for a service on a calendar day has number 1 whatever
\* tickets the service has from earlier days, and no two tickets of one
\* service created on the same day have the same number.
C19_PerDayNumbering ==
    \A i \in 1..Len(tickets) :
        /\ (\A j \in 1..(i - 1) : ~SameScope(tickets[j], tickets[i]))
                => tickets[i].number = 1
        /\ \A j \in 1..Len(tickets) :
                (j # i /\ SameScope(tickets[j], tickets[i]))
                    => tickets[j].number # tickets[i].number

\* C20: when the number of the most recent ticket of the service cannot be
\* parsed as a sequence number, the creation (POST /tickets/) does not fail:
\* it succeeds (201) and stores one new ticket, numbered with the scope's
\* starting value.
C20_MalformedNumberTolerated ==
    [][\A h \in Handlers :
        (Responds(h, "create") /\ req'[h].service \in DOMAIN Services
            /\ \E t \in Rows :
                 /\ t.service = req'[h].service
                 /\ t.number # NoNumber
                 /\ \A u \in Rows : u.service = t.service
                        => u.created_at <= t.created_at)
            => (req'[h].code = 201 /\ Len(tickets') = Len(tickets) + 1)]_vars

\* C21: with one request at a time, Ticket.save gives a new ticket the
\* number 1 + the largest number among the tickets of the same service
\* created the same day that are still in the store (1 if there is none); so
\* after the highest-numbered ticket of a scope is deleted, the next creation
\* in that scope gets the deleted ticket's number again.
C21_NumberFromStoredTickets ==
    [][\A h \in Handlers :
        (req[h].pc = "save_write" /\ tickets' # tickets) =>
            LET new == tickets'[Len(tickets')]
                N   == {t.number : t \in {u \in Rows :
                            /\ u.service = new.service
                            /\ Date(u.created_at) = Date(new.created_at)}}
            IN  /\ Len(tickets') = Len(tickets) + 1
                /\ new.number = IF N = {} THEN 1
                                ELSE 1 + CHOOSE n \in N : \A m \in N : m <= n]_vars

\* A ticket numbered 2 was deleted and the ticket created after it, in the
\* same service on the same day, is numbered 2 again, next to the ticket
\* numbered 1.
C21_Witness ==
    /\ Date(now) = 0
    /\ req[2].pc = "done" /\ req[2].op = "destroy" /\ req[2].code = 200
    /\ req[2].number = 2
    /\ req[1].pc = "idle"
    /\ Len(tickets) = 2
    /\ tickets[1].service = req[2].service /\ tickets[1].number = 1
    /\ tickets[2].service = req[2].service /\ tickets[2].number = 2
    /\ tickets[2].id = 3

====
